---- MODULE Spec2Model ----
(***************************************************************************)
(* Model of the City CRUD service of src/index.js: one in-memory array     *)
(* `cities`, the counter `nextId`, and the five Express route handlers.    *)
(* Node runs every handler body to completion on one event loop, so each   *)
(* handler is one atomic action.  `req` and `res` are the request last     *)
(* served and the response sent for it.                                     *)
(*                                                                         *)
(* Encoding of JavaScript values:                                          *)
(*  - a JSON scalar is a record [t, n, s] (t is "num", "str", "null" or    *)
(*    "nan"), so that values of different JavaScript types compare unequal *)
(*    instead of being incomparable;                                       *)
(*  - a JSON object is a function from its field names to scalars;         *)
(*  - a string that is parsed (the :id path segment) is a sequence of      *)
(*    one-character strings;                                               *)
(*  - array indexes are 1-based, and 0 stands for findIndex's -1;          *)
(*  - a response is [status, type, body]: body is a sequence of objects,   *)
(*    type tells whether JSON carried it as an array, as one object, or    *)
(*    whether the response had no body.                                    *)
(***************************************************************************)
EXTENDS Integers, Sequences, FiniteSets, TLC

VARIABLES cities, nextId, req, res

vars == <<cities, nextId, req, res>>

(* ------------------------------ bounds --------------------------------- *)
MaxCities == 3    \* POST is served while fewer than MaxCities records exist
MaxNextId == 6    \* POST is served while nextId < MaxNextId

(* --------------------------- JSON scalars ------------------------------ *)
Num(k) == [t |-> "num", n |-> k, s |-> ""]
Str(x) == [t |-> "str", n |-> 0, s |-> x]
Null   == [t |-> "null", n |-> 0, s |-> ""]
NaN    == [t |-> "nan", n |-> 0, s |-> ""]

\* JavaScript ===  : same type and same value, and NaN equals nothing
StrictEq(a, b) == a.t # "nan" /\ b.t # "nan" /\ a = b

(* ------------------------- parseInt / String --------------------------- *)
Digits == <<"0", "1", "2", "3", "4", "5", "6", "7", "8", "9">>

IsDigit(c) == \E d \in 1..10 : Digits[d] = c

DigitVal(c) == (CHOOSE d \in 1..10 : Digits[d] = c) - 1

RECURSIVE SkipSpace(_)
SkipSpace(str) ==
    IF str # <<>> /\ Head(str) = " " THEN SkipSpace(Tail(str)) ELSE str

RECURSIVE DigitPrefix(_)
DigitPrefix(str) ==
    IF str # <<>> /\ IsDigit(Head(str))
    THEN <<Head(str)>> \o DigitPrefix(Tail(str))
    ELSE <<>>

RECURSIVE DecimalValue(_)
DecimalValue(ds) ==
    IF ds = <<>> THEN 0
    ELSE 10 * DecimalValue(SubSeq(ds, 1, Len(ds) - 1)) + DigitVal(ds[Len(ds)])

\* parseInt(string): leading white space is skipped, one sign is accepted,
\* the longest prefix of decimal digits is the value, and the rest of the
\* string is ignored; NaN when there is no digit.
ParseInt(str) ==
    LET t    == SkipSpace(str)
        neg  == t # <<>> /\ Head(t) = "-"
        sign == t # <<>> /\ Head(t) \in {"-", "+"}
        ds   == DigitPrefix(IF sign THEN Tail(t) ELSE t)
    IN  IF ds = <<>> THEN NaN
        ELSE Num(IF neg THEN 0 - DecimalValue(ds) ELSE DecimalValue(ds))

RECURSIVE DecimalString(_)
DecimalString(k) ==
    IF k < 10 THEN <<Digits[k + 1]>>
    ELSE DecimalString(k \div 10) \o <<Digits[(k % 10) + 1]>>

\* The text a client puts in the URL for an id it was given: String(v).
ToPath(v) ==
    IF v.t = "num"
    THEN (IF v.n < 0 THEN <<"-">> \o DecimalString(0 - v.n) ELSE DecimalString(v.n))
    ELSE IF v.t = "null" THEN <<"n", "u", "l", "l">>
    ELSE <<v.s>>

(* --------------------------- JSON objects ------------------------------ *)
EmptyObject == [f \in {} |-> Null]

\* { ...base, ...body } : a field of body replaces the same field of base
ObjectSpread(base, body) ==
    [f \in (DOMAIN base) \cup (DOMAIN body) |->
        IF f \in DOMAIN body THEN body[f] ELSE base[f]]

\* { id: nextId++, ...req.body }
NewCity(k, body) == ObjectSpread([id |-> Num(k)], body)

\* { id: cities[index].id, ...req.body } : partial-patch variant
UpdatedCityPatch(old, body) == ObjectSpread(old, body)

\* { id: cities[index].id, ...req.body }
UpdatedCity(old, body) == ObjectSpread([id |-> old.id], body)

(* ------------------------------ arrays --------------------------------- *)
\* findIndex that reports the last index when nothing matches
FindIndexLast(cs, v) ==
    IF \E i \in 1..Len(cs) : StrictEq(cs[i].id, v)
    THEN CHOOSE i \in 1..Len(cs) :
            /\ StrictEq(cs[i].id, v)
            /\ \A j \in 1..(i - 1) : ~StrictEq(cs[j].id, v)
    ELSE Len(cs)

\* cities.findIndex(c => c.id === v): first matching index, 0 for -1
FindIndex(cs, v) ==
    IF \E i \in 1..Len(cs) : StrictEq(cs[i].id, v)
    THEN CHOOSE i \in 1..Len(cs) :
            /\ StrictEq(cs[i].id, v)
            /\ \A j \in 1..(i - 1) : ~StrictEq(cs[j].id, v)
    ELSE 0

\* cities.find(c => c.id === v): <<first match>>, or <<>> for undefined
Find(cs, v) ==
    IF \E i \in 1..Len(cs) : StrictEq(cs[i].id, v)
    THEN <<cs[CHOOSE i \in 1..Len(cs) :
                /\ StrictEq(cs[i].id, v)
                /\ \A j \in 1..(i - 1) : ~StrictEq(cs[j].id, v)]>>
    ELSE <<>>

\* removal that fills the hole with the last element
SpliceSwap(cs, i) ==
    [j \in 1..(Len(cs) - 1) |-> IF j = i THEN cs[Len(cs)] ELSE cs[j]]

\* cities.splice(i, 1)
Splice(cs, i) == SubSeq(cs, 1, i - 1) \o SubSeq(cs, i + 1, Len(cs))

\* cities.push(c)
Push(cs, c) == Append(cs, c)

(* ------------------------- requests, responses ------------------------- *)
InitialNextId == 3

\* the ids a JSON body may carry
BodyIds == {Num(3), Null}

\* req.body: no field, the documented fields, a subset of them, and bodies
\* that carry an id of their own (one a record can already have, and null)
Bodies ==
    { EmptyObject,
      [name |-> Str("A"), population |-> Num(10)],
      [name |-> Str("B")],
      [id |-> Num(3), name |-> Str("A")],
      [id |-> Null] }

\* req.params.id: the text of every id a record can have, and segments
\* that are not the text of an id
Paths ==
    {ToPath(Num(k)) : k \in InitialNextId..MaxNextId}
        \cup {ToPath(v) : v \in BodyIds}
        \cup {<<"x">>, <<"3", "x">>, <<"-", "3">>, <<" ", "0", "4">>}

Request(m, p, b) == [method |-> m, path |-> p, body |-> b]

NotFound == [status |-> 404, type |-> "object",
             body |-> <<[message |-> Str("City not found")]>>]

JsonObject(st, o) == [status |-> st, type |-> "object", body |-> <<o>>]

(* ------------------------------- state --------------------------------- *)
Init ==
    /\ cities = <<>>
    /\ nextId = InitialNextId
    /\ req = Request("NONE", <<>>, EmptyObject)
    /\ res = [status |-> 0, type |-> "none", body |-> <<>>]

\* app.get('/cities')
List ==
    /\ req' = Request("LIST", <<>>, EmptyObject)
    /\ res' = [status |-> 200, type |-> "array", body |-> cities]
    /\ UNCHANGED <<cities, nextId>>

\* app.get('/cities/:id')
Get ==
    \E p \in Paths :
        LET city == Find(cities, ParseInt(p))
        IN  /\ req' = Request("GET", p, EmptyObject)
            /\ res' = IF city # <<>> THEN JsonObject(200, city[1]) ELSE NotFound
            /\ UNCHANGED <<cities, nextId>>

\* app.post('/cities')
Create ==
    /\ Len(cities) < MaxCities
    /\ nextId < MaxNextId
    /\ \E b \in Bodies :
        LET newCity == NewCity(nextId, b)
        IN  /\ nextId' = nextId + 1
            /\ cities' = Push(cities, newCity)
            /\ req' = Request("POST", <<>>, b)
            /\ res' = JsonObject(201, newCity)

\* app.put('/cities/:id')
Update ==
    \E p \in Paths, b \in Bodies :
        LET index == FindIndex(cities, ParseInt(p))
        IN  /\ req' = Request("PUT", p, b)
            /\ IF index # 0
               THEN /\ cities' = [cities EXCEPT ![index] = UpdatedCity(cities[index], b)]
                    /\ res' = JsonObject(200, cities'[index])
               ELSE /\ cities' = cities
                    /\ res' = NotFound
            /\ UNCHANGED nextId

\* app.delete('/cities/:id')
Delete ==
    \E p \in Paths :
        LET index == FindIndex(cities, ParseInt(p))
        IN  /\ req' = Request("DELETE", p, EmptyObject)
            /\ IF index # 0
               THEN /\ cities' = Splice(cities, index)
                    /\ res' = [status |-> 204, type |-> "none", body |-> <<>>]
               ELSE /\ cities' = cities
                    /\ res' = NotFound
            /\ UNCHANGED nextId

Next == List \/ Get \/ Create \/ Update \/ Delete

Spec == Init /\ [][Next]_vars

(* ------------------------------ properties ----------------------------- *)
\* The id an id-addressed request names: the integer parsed from its path.
Addressed(r) == ParseInt(r.path)

Exists(cs, v) == \E i \in 1..Len(cs) : StrictEq(cs[i].id, v)

\* a > b for two JSON scalars that are both numbers
Greater(a, b) == a.t = "num" /\ b.t = "num" /\ a.n > b.n

\* C1: every stored record has an id that is not null, and no two stored
\* records have the same id.
C1_UniqueIds ==
    \A i, j \in 1..Len(cities) :
        /\ "id" \in DOMAIN cities[i]
        /\ cities[i].id # Null
        /\ (i # j => cities[i].id # cities[j].id)

\* C2: after a Create, the id of the returned record and of the record
\* stored at the end of the collection is the value taken from the counter
\* (the counter is one past it), whatever the body carried.
C2_ServerIdWins ==
    req.method = "POST" =>
        /\ res.status = 201
        /\ res.body[1].id = Num(nextId - 1)
        /\ cities # <<>>
        /\ cities[Len(cities)].id = Num(nextId - 1)

\* C3: the counter never decreases, and the id of a newly created record is
\* a number strictly greater than the id of every record created before it
\* that is still stored.
C3_IdMonotonic ==
    [][ /\ nextId' >= nextId
        /\ (req'.method = "POST" =>
                \A i \in 1..Len(cities) : Greater(res'.body[1].id, cities[i].id))
      ]_vars

\* C4: a successful PUT returns and stores, at the position of the record
\* it addressed, a record with the id that record had before, so that a GET
\* on the same path id still finds it.
C4_IdImmutable ==
    [][ (req'.method = "PUT" /\ res'.status = 200) =>
            /\ StrictEq(res'.body[1].id, Addressed(req'))
            /\ \E i \in 1..Len(cities) :
                    /\ cities'[i] = res'.body[1]
                    /\ cities'[i].id = cities[i].id
            /\ Exists(cities', Addressed(req'))
      ]_vars

\* C5: the request served right after a DELETE that returned 204, when it
\* is a GET or a DELETE on the same id, returns 404.
C5_DeleteNotRepeatable ==
    [][ ( /\ req.method = "DELETE" /\ res.status = 204
          /\ req'.method \in {"GET", "DELETE"}
          /\ Addressed(req') = Addressed(req) ) =>
            res'.status = 404
      ]_vars

\* C6: a GET served right after a POST, on the id the POST returned, gives
\* 200 with exactly the fields of the POST body plus the id taken from the
\* counter.
C6_RoundTrip ==
    [][ ( /\ req.method = "POST"
          /\ req'.method = "GET"
          /\ req'.path = ToPath(res.body[1].id) ) =>
            /\ res'.status = 200
            /\ res'.type = "object"
            /\ res'.body[1] =
                 [f \in (DOMAIN req.body) \cup {"id"} |->
                     IF f = "id" THEN Num(nextId - 1) ELSE req.body[f]]
      ]_vars

\* C7: a successful PUT with body B leaves at the position of the first
\* record with the addressed id a record whose fields are exactly those of
\* B plus id, every field other than id with B's value; it returns that
\* record and changes no other record.
C7_FullReplace ==
    [][ (req'.method = "PUT" /\ res'.status = 200) =>
            \E i \in 1..Len(cities) :
                /\ StrictEq(cities[i].id, Addressed(req'))
                /\ \A j \in 1..(i - 1) : ~StrictEq(cities[j].id, Addressed(req'))
                /\ Len(cities') = Len(cities)
                /\ DOMAIN cities'[i] = (DOMAIN req'.body) \cup {"id"}
                /\ \A f \in (DOMAIN req'.body) \ {"id"} : cities'[i][f] = req'.body[f]
                /\ \A f \in (DOMAIN cities[i]) \ ((DOMAIN req'.body) \cup {"id"}) :
                        f \notin DOMAIN cities'[i]
                /\ res'.body = <<cities'[i]>>
                /\ \A j \in 1..Len(cities) : j # i => cities'[j] = cities[j]
      ]_vars

C7_Witness ==
    /\ req.method = "PUT" /\ res.status = 200
    /\ req.body = [name |-> Str("B")]
    /\ Len(cities) = 2
    /\ cities[1] = [id |-> Num(3), name |-> Str("B")]
    /\ cities[2] = [id |-> Num(4), name |-> Str("A"), population |-> Num(10)]

\* C8: List returns the collection as it is stored; Create appends the new
\* record at the end; Update changes no length and no position other than
\* the one it returns; a successful Delete removes exactly one element and
\* keeps the others in their order; nothing else changes the collection.
C8_InsertionOrder ==
    [][ /\ (req'.method = "LIST" =>
                res'.type = "array" /\ res'.body = cities /\ cities' = cities)
        /\ (req'.method = "GET" => cities' = cities)
        /\ (req'.method = "POST" =>
                /\ Len(cities') = Len(cities) + 1
                /\ \A j \in 1..Len(cities) : cities'[j] = cities[j]
                /\ cities'[Len(cities')] = res'.body[1])
        /\ (req'.method = "PUT" =>
                /\ Len(cities') = Len(cities)
                /\ \A j \in 1..Len(cities) :
                        \/ cities'[j] = cities[j]
                        \/ /\ res'.status = 200
                           /\ cities'[j] = res'.body[1]
                           /\ \A k \in 1..Len(cities) : k # j => cities'[k] = cities[k])
        /\ (req'.method = "DELETE" =>
                IF res'.status = 204
                THEN \E i \in 1..Len(cities) :
                        /\ Len(cities') = Len(cities) - 1
                        /\ \A j \in 1..(i - 1) : cities'[j] = cities[j]
                        /\ \A j \in i..Len(cities') : cities'[j] = cities[j + 1]
                ELSE cities' = cities)
      ]_vars

\* three records A, B, C were created, B was deleted, and [A, C] is left
C8_Witness ==
    /\ req.method = "DELETE" /\ res.status = 204
    /\ Addressed(req) = Num(4)
    /\ Len(cities) = 2
    /\ cities[1].id = Num(3)
    /\ cities[2].id = Num(5)

\* C9: a GET, PUT or DELETE whose path id no stored record has returns 404
\* with {message: "City not found"} and leaves the collection and the
\* counter as they were; when a record has that id, it returns 200, 200
\* and 204.
C9_NotFoundConsistency ==
    [][ (req'.method \in {"GET", "PUT", "DELETE"}) =>
            IF Exists(cities, Addressed(req'))
            THEN res'.status = (IF req'.method = "DELETE" THEN 204 ELSE 200)
            ELSE /\ res'.status = 404
                 /\ res'.type = "object"
                 /\ res'.body = <<[message |-> Str("City not found")]>>
                 /\ cities' = cities
                 /\ nextId' = nextId
      ]_vars

C9_Witness ==
    /\ req.method = "PUT" /\ res.status = 404
    /\ Addressed(req) = Num(5)
    /\ Len(cities) = 2
    /\ nextId = 5

\* C10: the store starts empty, and the first request of a process, when it
\* is a Create whose body carries no id, returns 201 with id 1.
C10_FirstIdIsOne ==
    [][ (req.method = "NONE" /\ req'.method = "POST" /\ "id" \notin DOMAIN req'.body) =>
            /\ cities = <<>>
            /\ res'.status = 201
            /\ res'.body[1].id = Num(1)
      ]_vars

====
